---- MODULE Spec2Model ----
(***************************************************************************)
(* Model of pkg/plugin/twinmaker/utils.go: the external-id lookup done by  *)
(* twinMakerHandler.GetComponentHistoryWithLookup and the key derivation   *)
(* of GetEntityPropertyReferenceKey.                                       *)
(*                                                                         *)
(* One invocation of GetComponentHistoryWithLookup is a process whose      *)
(* steps are cut at its three remote calls.  The remote services are the   *)
(* environment: every call draws its outcome (a response object or a nil   *)
(* pointer, together with an error or nil) from a bounded set.             *)
(*                                                                         *)
(* Go values are modelled as follows.                                      *)
(*   - A pointer to a response struct is a record with a field "present"   *)
(*     (FALSE for the nil pointer).  Dereferencing the nil pointer takes   *)
(*     the invocation to pc = "panic" and nothing is returned.             *)
(*   - The error value nil is the string NoError; any other string is the  *)
(*     text of err.Error().                                                *)
(*   - A Go map ranged over by the code (ExternalIdProperty, Components,   *)
(*     Properties) has an unspecified iteration order.  ExternalIdProperty *)
(*     is a function from keys to values and the entry the range statement *)
(*     yields first is a nondeterministic choice.  Components and          *)
(*     Properties are given as the sequence in which the range statement   *)
(*     yields them, drawn from every order.                                *)
(*   - A variable declared inside the loop body (externalId, le) holds its *)
(*     zero value outside its scope.                                       *)
(*   - The response of GetEntity is read only by lines 210-232, inside the *)
(*     step that receives it.  The entity-detail service is therefore kept *)
(*     as the variable entityDetail, which never changes: for each target  *)
(*     type and external id, what lines 210-232 compute from each of the   *)
(*     responses the service can give.  GetEntityOn(o) is the same step    *)
(*     for one given outcome o of the call.                                *)
(*   - A *string field of an EntityPropertyReference handed to             *)
(*     GetEntityPropertyReferenceKey is <<>> for the nil pointer and <<s>>  *)
(*     for a pointer to the string s.                                      *)
(*   - Responses of a call that returned a nil error are well formed:      *)
(*     the response object is present, its pointer fields are set, and a   *)
(*     property flagged IsExternalId holds a string value.                 *)
(***************************************************************************)
EXTENDS Integers, Sequences, FiniteSets, TLC

\* ------------------------------------------------------------------ bounds
MaxBatches == 2
MaxProperties == 2

\* ------------------------------------------------------------- value sets
NoError == "<nil>"

\* The text of the error each remote operation may return.
ErrorText(op) ==
  CASE op = "GetPropertyValueHistory" -> "history failed"
    [] op = "ListEntities" -> "search failed"
    [] op = "GetEntity" -> "detail failed"

ExternalIdValues == {"x1", "x2"}
EntityIds == {"e1", "e2"}
ComponentNames == {"c1", "c2"}
ComponentTypeIds == {"T1", "T2"}

EmptyMapping == [k \in {} |-> "x1"]

\* The PropertyValueHistory entries the history service may return: the
\* ExternalIdProperty map holds no, one or two entries.
HistoryBatches ==
  { [ExternalIdProperty |-> EmptyMapping,
     Values |-> "v0", PropertyName |-> "p1"],
    [ExternalIdProperty |-> [k \in {"k1"} |-> "x1"],
     Values |-> "v1", PropertyName |-> "p1"],
    [ExternalIdProperty |-> [k \in {"k1", "k2"} |-> IF k = "k1" THEN "x1" ELSE "x2"],
     Values |-> "v2", PropertyName |-> "p2"] }

SeqsUpTo(S, n) == UNION { [1..k -> S] : k \in 0..n }

InjectiveSeqs(S) ==
  { s \in SeqsUpTo(S, Cardinality(S)) :
      \A i, j \in 1..Len(s) : s[i] = s[j] => i = j }

HistoryResults == SeqsUpTo(HistoryBatches, MaxBatches)
SingleBatchResults == { <<b>> : b \in HistoryBatches }

\* EntitySummary: the catalog owns id and name; the name is a function of the id.
EntityNameOf(id) == IF id = "e1" THEN "Boiler" ELSE "Pump"
EntitySummaries == { [EntityId |-> id, EntityName |-> EntityNameOf(id)] : id \in EntityIds }

\* ListEntitiesOutput; a hit list names each entity once.
NilListEntitiesOutput == [present |-> FALSE, EntitySummaries |-> <<>>]
ListEntitiesOutputs ==
  { [present |-> TRUE, EntitySummaries |-> s] : s \in InjectiveSeqs(EntitySummaries) }

\* PropertyResponse: Definition.IsExternalId and Value.StringValue.
PropertyResponses ==
  { [IsExternalId |-> TRUE, Value |-> "x1"],
    [IsExternalId |-> TRUE, Value |-> "x2"],
    [IsExternalId |-> FALSE, Value |-> "x1"] }

\* ComponentResponse.Properties in iteration order.
PropertyLists == SeqsUpTo(PropertyResponses, MaxProperties)

\* GetEntityOutput.Components in iteration order; the names are the keys of
\* the map, so no two components of a response share one.
ComponentLists ==
  UNION { { [i \in 1..Len(names) |->
               [ComponentName |-> names[i],
                ComponentTypeId |-> body[i].t,
                Properties |-> body[i].p]] :
            body \in [1..Len(names) -> [t : ComponentTypeIds, p : PropertyLists]] } :
          names \in InjectiveSeqs(ComponentNames) }

NilGetEntityOutput == [present |-> FALSE, Components |-> <<>>]
GetEntityOutputs == { [present |-> TRUE, Components |-> c] : c \in ComponentLists }

\* What a remote call may hand back: (response, nil), or an error together
\* with a response object or with the nil pointer.  A failed ListEntities may
\* come with any response object.
ListEntitiesOutcomes ==
  { [out |-> o, err |-> NoError] : o \in ListEntitiesOutputs }
  \cup { [out |-> o, err |-> ErrorText("ListEntities")] :
         o \in ListEntitiesOutputs \cup {NilListEntitiesOutput} }
\* A failed GetEntity hands back the nil pointer or an unfilled response object.
GetEntityOutcomes ==
  { [out |-> o, err |-> NoError] : o \in GetEntityOutputs }
  \cup { [out |-> o, err |-> ErrorText("GetEntity")] :
         o \in {NilGetEntityOutput, [present |-> TRUE, Components |-> <<>>]} }

\* The models.TwinMakerQuery the caller passes in (by value).
CallerQuery ==
  [EntityId |-> "e0", Properties |-> <<"p1">>, ComponentTypeId |-> "T1",
   ListEntitiesFilter |-> <<>>]

\* ---------------------------------------------------------- pure functions

Last(s) == s[Len(s)]

\* The values a `for _, val := range m { x = *val; break }` can leave in x
\* (lines 137-142 and lines 178-183).
FirstExternalId(m) == IF DOMAIN m = {} THEN {""} ELSE { m[k] : k \in DOMAIN m }

\* Inner loop, lines 222-229: the loop leaves componentName set exactly when it
\* reaches a property flagged IsExternalId whose value is externalId.
ScanProperties(properties, externalId) ==
  \E i \in 1..Len(properties) :
    properties[i].IsExternalId /\ properties[i].Value = externalId

\* The positions of the components whose type is typeId (the test of line 221).
OfType(components, typeId) ==
  { i \in 1..Len(components) : components[i].ComponentTypeId = typeId }

\* The position at which a loop over positions S stops when it breaks at the
\* first of them.
FirstOf(S) == CHOOSE i \in S : \A j \in S : i <= j

\* Variant of the scan without the break of line 230: it goes on to later
\* components of the type until one matches.
ScanComponents_NoBreak(components, typeId, externalId) ==
  IF { i \in OfType(components, typeId) :
         ScanProperties(components[i].Properties, externalId) } = {} THEN ""
  ELSE components[FirstOf({ i \in OfType(components, typeId) :
                              ScanProperties(components[i].Properties, externalId) })].ComponentName

\* Outer loop, lines 218-232: the loop runs up to the first component whose
\* type is typeId, scans its properties and breaks, matched or not.
ScanComponents(components, typeId, externalId) ==
  IF OfType(components, typeId) = {} THEN ""
  ELSE IF ScanProperties(components[FirstOf(OfType(components, typeId))].Properties,
                         externalId)
       THEN components[FirstOf(OfType(components, typeId))].ComponentName
       ELSE ""

Notice(text) == [Severity |-> "warning", Text |-> text]

\* Variant that puts the latest Notice first.
RecordFailure_Prepend(fs, e) == IF e # NoError THEN <<Notice(e)>> \o fs ELSE fs

\* `if err != nil { failures = append(failures, notice) }`: no continue follows.
RecordFailure(fs, e) == IF e # NoError THEN Append(fs, Notice(e)) ELSE fs

\* What lines 210-232 read of an outcome of GetEntity: the error, whether the
\* response is the nil pointer, and the component name the scan finds in it.
GetEntityEffect(o, t, x) ==
  [present |-> o.out.present, err |-> o.err,
   componentName |-> ScanComponents(o.out.Components, t, x)]

\* The entity-detail service as the invocation can observe it: for each target
\* type t and external id x, the effects its responses can have.
EntityDetailService ==
  { [t |-> t, x |-> x, effects |-> { GetEntityEffect(o, t, x) : o \in GetEntityOutcomes }] :
    t \in ComponentTypeIds \cup {""}, x \in ExternalIdValues \cup {""} }

\* The EntityPropertyReference values handed to GetEntityPropertyReferenceKey:
\* each *string field nil or set, ids that hold the separator, and an
\* ExternalIdProperty map of no, one or two entries.
KeyEntityIds == {<<>>, <<"">>, <<"a">>, <<"a_b">>}
KeyComponentNames == {<<>>, <<"c">>, <<"b_c">>}
KeyPropertyNames == {<<>>, <<"p1">>, <<"p2">>}
KeyMappings ==
  { EmptyMapping,
    [k \in {"k1"} |-> "x1"],
    [k \in {"k1"} |-> "x2"],
    [k \in {"k1", "k2"} |-> IF k = "k1" THEN "x1" ELSE "x2"] }

EntityPropertyReferences ==
  [EntityId : KeyEntityIds, ComponentName : KeyComponentNames,
   ExternalIdProperty : KeyMappings, PropertyName : KeyPropertyNames]

\* Variant of the key that leaves the component name out.
refKey_SkipComponent(ref, externalId) ==
  (IF ref.EntityId # <<>> THEN ref.EntityId[1] \o "_" ELSE "")
  \o externalId \o "_"
  \o (IF ref.PropertyName # <<>> THEN ref.PropertyName[1] ELSE "")

\* Variant of the key that writes the separator of an absent entity id.
refKey_AlwaysSeparator(ref, externalId) ==
  (IF ref.EntityId # <<>> THEN ref.EntityId[1] ELSE "") \o "_"
  \o (IF ref.ComponentName # <<>> THEN ref.ComponentName[1] \o "_" ELSE "")
  \o externalId \o "_"
  \o (IF ref.PropertyName # <<>> THEN ref.PropertyName[1] ELSE "")

\* Lines 143-155: the key built for the externalId that lines 137-142 left.
refKey(ref, externalId) ==
  (IF ref.EntityId # <<>> THEN ref.EntityId[1] \o "_" ELSE "")
  \o (IF ref.ComponentName # <<>> THEN ref.ComponentName[1] \o "_" ELSE "")
  \o externalId \o "_"
  \o (IF ref.PropertyName # <<>> THEN ref.PropertyName[1] ELSE "")

\* --------------------------------------------------------------- the state
VARIABLES
  pc,                  \* "start", "loop", "getEntity", "done", "panic"
  query,               \* the callee's copy of the query argument
  componentTypeId,     \* line 167
  result,              \* result.PropertyValues of the history call
  idx,                 \* position of the range loop of line 177
  externalId,          \* line 178-183, of the current batch ("" outside its scope)
  le,                  \* line 195, of the current batch (nil outside its scope)
  propertyReferences,  \* line 165
  failures,            \* line 166
  ret,                 \* <<>> until the function returns, then <<[p, n, err]>>
  calls,               \* log of the remote calls issued, in order
  entityDetail,        \* the entity-detail service (environment, fixed)
  keyCalls,            \* the two latest calls of GetEntityPropertyReferenceKey
  callerQuery,         \* the Query value the caller of two invocations holds
  service,             \* the responses the services give to two invocations
  inv                  \* the state of each of two invocations

lookupVars == <<pc, query, componentTypeId, result, idx, externalId, le,
                propertyReferences, failures, ret, calls, entityDetail>>
keyVars == <<keyCalls>>
twoVars == <<callerQuery, service, inv>>

vars == <<lookupVars, keyVars, twoVars>>

Call(op, batch, q, out, e) == [op |-> op, batch |-> batch, query |-> q, out |-> out, err |-> e]

\* How the log describes a response: the nil pointer, or what the code reads of it.
ListEntitiesShape(o) ==
  IF ~o.present THEN "nil" ELSE IF Len(o.EntitySummaries) > 0 THEN "hits" ELSE "empty"

Init ==
  /\ pc = "start"
  /\ query = CallerQuery
  /\ componentTypeId = CallerQuery.ComponentTypeId
  /\ result = <<>>
  /\ idx = 0
  /\ externalId = ""
  /\ le = NilListEntitiesOutput
  /\ propertyReferences = <<>>
  /\ failures = <<>>
  /\ ret = <<>>
  /\ calls = <<>>
  /\ entityDetail = EntityDetailService
  /\ keyCalls = [previous |-> <<>>, latest |-> <<>>]
  /\ callerQuery = CallerQuery
  /\ service = <<>>
  /\ inv = <<>>

\* Variant of the history call that swallows the error and goes on with no batches.
GetPropertyValueHistoryFrom_SwallowError(results) ==
  /\ pc = "start"
  /\ \/ \E r \in results :
          /\ result' = r
          /\ calls' = Append(calls, Call("GetPropertyValueHistory", 0, query, "ok", NoError))
     \/ /\ result' = <<>>
        /\ calls' = Append(calls, Call("GetPropertyValueHistory", 0, query, "nil",
                                       ErrorText("GetPropertyValueHistory")))
  /\ idx' = 1
  /\ pc' = "loop"
  /\ UNCHANGED <<query, componentTypeId, externalId, le, propertyReferences, failures,
                 ret, entityDetail, keyVars, twoVars>>

\* Lines 170-173: the history call; an error returns at once.
GetPropertyValueHistoryFrom(results) ==
  /\ pc = "start"
  /\ \/ \E r \in results :
          /\ result' = r
          /\ idx' = 1
          /\ pc' = "loop"
          /\ ret' = ret
          /\ calls' = Append(calls, Call("GetPropertyValueHistory", 0, query, "ok", NoError))
     \/ /\ pc' = "done"
        /\ ret' = <<[p |-> propertyReferences, n |-> failures,
                     err |-> ErrorText("GetPropertyValueHistory")]>>
        /\ calls' = Append(calls, Call("GetPropertyValueHistory", 0, query, "nil",
                                       ErrorText("GetPropertyValueHistory")))
        /\ UNCHANGED <<result, idx>>
  /\ UNCHANGED <<query, componentTypeId, externalId, le, propertyReferences, failures,
                 entityDetail, keyVars, twoVars>>

GetPropertyValueHistory == GetPropertyValueHistoryFrom(HistoryResults)

\* Variant of the search step that reports a search without hits as a failure.
ListEntitiesWith_NoticeOnEmpty(x, o) ==
  /\ pc = "loop"
  /\ idx <= Len(result)
  /\ LET q == [query EXCEPT !.EntityId = "", !.Properties = <<>>,
                            !.ComponentTypeId = "",
                            !.ListEntitiesFilter = <<[ExternalId |-> x]>>]
     IN  /\ query' = q
         /\ calls' = Append(calls, Call("ListEntities", idx, q, ListEntitiesShape(o.out), o.err))
         /\ IF ~o.out.present
            THEN /\ pc' = "panic" /\ idx' = idx /\ le' = o.out /\ externalId' = x
                 /\ failures' = RecordFailure(failures, o.err)
            ELSE IF Len(o.out.EntitySummaries) > 0
                 THEN /\ pc' = "getEntity" /\ idx' = idx /\ le' = o.out /\ externalId' = x
                      /\ failures' = RecordFailure(failures, o.err)
                 ELSE /\ pc' = "loop" /\ idx' = idx + 1
                      /\ le' = NilListEntitiesOutput /\ externalId' = ""
                      /\ failures' = Append(RecordFailure(failures, o.err), Notice("no entity"))
  /\ UNCHANGED <<componentTypeId, result, propertyReferences, ret, entityDetail, keyVars, twoVars>>

\* Variant of the search step that issues the search of a batch once more
\* after it failed.
ListEntitiesWith_RetryOnError(x, o) ==
  /\ pc = "loop"
  /\ idx <= Len(result)
  /\ LET q == [query EXCEPT !.EntityId = "", !.Properties = <<>>,
                            !.ComponentTypeId = "",
                            !.ListEntitiesFilter = <<[ExternalId |-> x]>>]
     IN  /\ query' = q
         /\ calls' = Append(calls, Call("ListEntities", idx, q, ListEntitiesShape(o.out), o.err))
         /\ failures' = RecordFailure(failures, o.err)
         /\ IF ~o.out.present
            THEN pc' = "panic" /\ idx' = idx /\ le' = o.out /\ externalId' = x
            ELSE IF Len(o.out.EntitySummaries) > 0
                 THEN pc' = "getEntity" /\ idx' = idx /\ le' = o.out /\ externalId' = x
                 ELSE /\ pc' = "loop"
                      /\ idx' = IF o.err # NoError
                                    /\ \A i \in 1..Len(calls) : calls[i].batch # idx
                                 THEN idx ELSE idx + 1
                      /\ le' = NilListEntitiesOutput /\ externalId' = ""
  /\ UNCHANGED <<componentTypeId, result, propertyReferences, ret, entityDetail, keyVars, twoVars>>

\* Variant of the search step that leaves the entity id of the previous batch
\* in the request.
ListEntitiesWith_KeepEntityId(x, o) ==
  /\ pc = "loop"
  /\ idx <= Len(result)
  /\ LET q == [query EXCEPT !.Properties = <<>>,
                            !.ComponentTypeId = "",
                            !.ListEntitiesFilter = <<[ExternalId |-> x]>>]
     IN  /\ query' = q
         /\ calls' = Append(calls, Call("ListEntities", idx, q, ListEntitiesShape(o.out), o.err))
         /\ failures' = RecordFailure(failures, o.err)
         /\ IF ~o.out.present
            THEN pc' = "panic" /\ idx' = idx /\ le' = o.out /\ externalId' = x
            ELSE IF Len(o.out.EntitySummaries) > 0
                 THEN pc' = "getEntity" /\ idx' = idx /\ le' = o.out /\ externalId' = x
                 ELSE /\ pc' = "loop" /\ idx' = idx + 1
                      /\ le' = NilListEntitiesOutput /\ externalId' = ""
  /\ UNCHANGED <<componentTypeId, result, propertyReferences, ret, entityDetail, keyVars, twoVars>>

\* Lines 177-206: one batch up to the test of the search response, for the
\* entry x that the range over ExternalIdProperty yields and the outcome o
\* of the call.
ListEntitiesWith(x, o) ==
  /\ pc = "loop"
  /\ idx <= Len(result)
  /\ LET q == [query EXCEPT !.EntityId = "", !.Properties = <<>>,
                            !.ComponentTypeId = "",
                            !.ListEntitiesFilter = <<[ExternalId |-> x]>>]
     IN  /\ query' = q
         /\ calls' = Append(calls, Call("ListEntities", idx, q, ListEntitiesShape(o.out), o.err))
         /\ failures' = RecordFailure(failures, o.err)
         /\ IF ~o.out.present
            THEN pc' = "panic" /\ idx' = idx /\ le' = o.out /\ externalId' = x
            ELSE IF Len(o.out.EntitySummaries) > 0
                 THEN pc' = "getEntity" /\ idx' = idx /\ le' = o.out /\ externalId' = x
                 ELSE /\ pc' = "loop" /\ idx' = idx + 1
                      /\ le' = NilListEntitiesOutput /\ externalId' = ""
  /\ UNCHANGED <<componentTypeId, result, propertyReferences, ret, entityDetail, keyVars, twoVars>>

ListEntities ==
  /\ pc = "loop"
  /\ idx <= Len(result)
  /\ \E x \in FirstExternalId(result[idx].ExternalIdProperty), o \in ListEntitiesOutcomes :
       ListEntitiesWith(x, o)

GetEntityEffects(t, x) ==
  (CHOOSE r \in entityDetail : r.t = t /\ r.x = x).effects

\* Variant of the entity-detail step that takes the last entity summary.
GetEntityWith_LastSummary(eff) ==
  /\ pc = "getEntity"
  /\ LET entityId == Last(le.EntitySummaries).EntityId
         entityName == Last(le.EntitySummaries).EntityName
         q == [query EXCEPT !.EntityId = entityId]
         pr == [values |-> result[idx].Values,
                entityPropertyReference |->
                  [EntityId |-> entityId,
                   ComponentName |-> eff.componentName,
                   ExternalIdProperty |-> result[idx].ExternalIdProperty,
                   PropertyName |-> result[idx].PropertyName],
                entityName |-> entityName]
     IN  /\ query' = q
         /\ calls' = Append(calls, Call("GetEntity", idx, q,
                              IF eff.present THEN "ok" ELSE "nil", eff.err))
         /\ failures' = RecordFailure(failures, eff.err)
         /\ IF ~eff.present
            THEN pc' = "panic" /\ UNCHANGED <<idx, propertyReferences, externalId, le>>
            ELSE /\ propertyReferences' = Append(propertyReferences, pr)
                 /\ idx' = idx + 1
                 /\ pc' = "loop"
                 /\ le' = NilListEntitiesOutput /\ externalId' = ""
  /\ UNCHANGED <<componentTypeId, result, ret, entityDetail, keyVars, twoVars>>

\* Variant of the entity-detail step that drops a batch whose component name
\* stayed empty.
GetEntityWith_DropUnresolved(eff) ==
  /\ pc = "getEntity"
  /\ LET entityId == le.EntitySummaries[1].EntityId
         entityName == le.EntitySummaries[1].EntityName
         q == [query EXCEPT !.EntityId = entityId]
         pr == [values |-> result[idx].Values,
                entityPropertyReference |->
                  [EntityId |-> entityId,
                   ComponentName |-> eff.componentName,
                   ExternalIdProperty |-> result[idx].ExternalIdProperty,
                   PropertyName |-> result[idx].PropertyName],
                entityName |-> entityName]
     IN  /\ query' = q
         /\ calls' = Append(calls, Call("GetEntity", idx, q,
                              IF eff.present THEN "ok" ELSE "nil", eff.err))
         /\ failures' = RecordFailure(failures, eff.err)
         /\ IF ~eff.present
            THEN pc' = "panic" /\ UNCHANGED <<idx, propertyReferences, externalId, le>>
            ELSE /\ propertyReferences' = IF eff.componentName = "" THEN propertyReferences
                                          ELSE Append(propertyReferences, pr)
                 /\ idx' = idx + 1
                 /\ pc' = "loop"
                 /\ le' = NilListEntitiesOutput /\ externalId' = ""
  /\ UNCHANGED <<componentTypeId, result, ret, entityDetail, keyVars, twoVars>>

\* Lines 207-245: the entity-detail call, the scan of its components and the
\* append, for one outcome of the call.
GetEntityWith(eff) ==
  /\ pc = "getEntity"
  /\ LET entityId == le.EntitySummaries[1].EntityId
         entityName == le.EntitySummaries[1].EntityName
         q == [query EXCEPT !.EntityId = entityId]
         pr == [values |-> result[idx].Values,
                entityPropertyReference |->
                  [EntityId |-> entityId,
                   ComponentName |-> eff.componentName,
                   ExternalIdProperty |-> result[idx].ExternalIdProperty,
                   PropertyName |-> result[idx].PropertyName],
                entityName |-> entityName]
     IN  /\ query' = q
         /\ calls' = Append(calls, Call("GetEntity", idx, q,
                              IF eff.present THEN "ok" ELSE "nil", eff.err))
         /\ failures' = RecordFailure(failures, eff.err)
         /\ IF ~eff.present
            THEN pc' = "panic" /\ UNCHANGED <<idx, propertyReferences, externalId, le>>
            ELSE /\ propertyReferences' = Append(propertyReferences, pr)
                 /\ idx' = idx + 1
                 /\ pc' = "loop"
                 /\ le' = NilListEntitiesOutput /\ externalId' = ""
  /\ UNCHANGED <<componentTypeId, result, ret, entityDetail, keyVars, twoVars>>

\* The same step for an outcome o of the call.
GetEntityOn(o) == GetEntityWith(GetEntityEffect(o, componentTypeId, externalId))

GetEntity ==
  /\ pc = "getEntity"
  /\ \E eff \in GetEntityEffects(componentTypeId, externalId) : GetEntityWith(eff)

Reverse(s) == [i \in 1..Len(s) |-> s[Len(s) + 1 - i]]

\* Variant of the return that hands back the resolved references latest first.
Return_Reversed ==
  /\ pc = "loop"
  /\ idx > Len(result)
  /\ pc' = "done"
  /\ ret' = <<[p |-> Reverse(propertyReferences), n |-> failures, err |-> NoError]>>
  /\ UNCHANGED <<query, componentTypeId, result, idx, externalId, le,
                 propertyReferences, failures, calls, entityDetail, keyVars, twoVars>>

\* Variant of the return that reports the latest recorded failure as the error.
Return_ErrorOnFailures ==
  /\ pc = "loop"
  /\ idx > Len(result)
  /\ pc' = "done"
  /\ ret' = <<[p |-> propertyReferences, n |-> failures,
               err |-> IF failures = <<>> THEN NoError ELSE Last(failures).Text]>>
  /\ UNCHANGED <<query, componentTypeId, result, idx, externalId, le,
                 propertyReferences, failures, calls, entityDetail, keyVars, twoVars>>

\* Line 249.
Return ==
  /\ pc = "loop"
  /\ idx > Len(result)
  /\ pc' = "done"
  /\ ret' = <<[p |-> propertyReferences, n |-> failures, err |-> NoError]>>
  /\ UNCHANGED <<query, componentTypeId, result, idx, externalId, le,
                 propertyReferences, failures, calls, entityDetail, keyVars, twoVars>>

Next == GetPropertyValueHistory \/ ListEntities \/ GetEntity \/ Return

Spec == Init /\ [][Next]_vars

\* One invocation whose history call returns a single batch.
GetPropertyValueHistoryOne == GetPropertyValueHistoryFrom(SingleBatchResults)

NextOne == GetPropertyValueHistoryOne \/ ListEntities \/ GetEntity \/ Return

SpecOne == Init /\ [][NextOne]_vars

\* Lines 136-156: one call of GetEntityPropertyReferenceKey on ref.  The call
\* is logged with the entry the range over ExternalIdProperty yielded and the
\* key returned; the log keeps the call before it too.
GetEntityPropertyReferenceKeyOf(ref) ==
  /\ \E x \in FirstExternalId(ref.ExternalIdProperty) :
       keyCalls' = [previous |-> keyCalls.latest,
                    latest |-> <<[ref |-> ref, externalId |-> x, s |-> refKey(ref, x)]>>]
  /\ UNCHANGED <<lookupVars, twoVars>>

GetEntityPropertyReferenceKey ==
  \E ref \in EntityPropertyReferences : GetEntityPropertyReferenceKeyOf(ref)

NextKey == GetEntityPropertyReferenceKey

\* No lookup is running: the variables of GetComponentHistoryWithLookup rest
\* at their initial values and the entity-detail service is not consulted.
NoLookup ==
  /\ pc = "start"
  /\ query = CallerQuery
  /\ componentTypeId = CallerQuery.ComponentTypeId
  /\ result = <<>>
  /\ idx = 0
  /\ externalId = ""
  /\ le = NilListEntitiesOutput
  /\ propertyReferences = <<>>
  /\ failures = <<>>
  /\ ret = <<>>
  /\ calls = <<>>
  /\ entityDetail = {}

InitKey ==
  /\ NoLookup
  /\ keyCalls = [previous |-> <<>>, latest |-> <<>>]
  /\ callerQuery = CallerQuery
  /\ service = <<>>
  /\ inv = <<>>

SpecKey == InitKey /\ [][NextKey]_vars

\* ------------------------------------------------------- two invocations
\* Two invocations of GetComponentHistoryWithLookup started by one caller
\* from the same Query value, interleaved at their remote calls.  The query
\* parameter is passed by value (line 164): each invocation works on its own
\* copy.  The services answer both invocations alike: one history response,
\* one search response per external id, one entity-detail response per
\* entity id.
Invocations == {1, 2}

SearchResponses ==
  { [out |-> [present |-> TRUE, EntitySummaries |-> <<>>], err |-> NoError],
    [out |-> [present |-> TRUE,
              EntitySummaries |-> <<[EntityId |-> "e1", EntityName |-> EntityNameOf("e1")]>>],
     err |-> NoError],
    [out |-> [present |-> TRUE,
              EntitySummaries |-> <<[EntityId |-> "e2", EntityName |-> EntityNameOf("e2")]>>],
     err |-> NoError],
    [out |-> NilListEntitiesOutput, err |-> ErrorText("ListEntities")] }

EntityResponses ==
  { [out |-> [present |-> TRUE,
              Components |-> <<[ComponentName |-> "c1", ComponentTypeId |-> "T1",
                                Properties |-> <<[IsExternalId |-> TRUE, Value |-> "x1"]>>]>>],
     err |-> NoError],
    [out |-> [present |-> TRUE, Components |-> <<>>], err |-> NoError],
    [out |-> [present |-> TRUE, Components |-> <<>>], err |-> ErrorText("GetEntity")] }

HistoryResponses ==
  { [result |-> r, err |-> NoError] : r \in HistoryResults }
  \cup { [result |-> <<>>, err |-> ErrorText("GetPropertyValueHistory")] }

Services ==
  [history : HistoryResponses,
   search : [ExternalIdValues \cup {""} -> SearchResponses],
   detail : [EntityIds -> EntityResponses]]

\* The locals of one invocation at its start (lines 164-167).
Started(q) ==
  [pc |-> "start", query |-> q, componentTypeId |-> q.ComponentTypeId,
   result |-> <<>>, idx |-> 0, externalId |-> "", le |-> NilListEntitiesOutput,
   propertyReferences |-> <<>>, failures |-> <<>>, ret |-> <<>>,
   requests |-> <<>>, responses |-> <<>>]

InitTwo ==
  /\ NoLookup
  /\ keyCalls = [previous |-> <<>>, latest |-> <<>>]
  /\ callerQuery = CallerQuery
  /\ service \in Services
  /\ inv = [i \in Invocations |-> Started(callerQuery)]

Request(op, q) == [op |-> op, query |-> q]

\* Lines 170-173 in invocation i.
InvokeGetPropertyValueHistory(i) ==
  /\ inv[i].pc = "start"
  /\ inv' = [inv EXCEPT ![i] =
       IF service.history.err # NoError
       THEN [@ EXCEPT !.pc = "done",
                      !.ret = <<[p |-> inv[i].propertyReferences, n |-> inv[i].failures,
                                 err |-> service.history.err]>>,
                      !.requests = Append(@, Request("GetPropertyValueHistory", inv[i].query)),
                      !.responses = Append(@, service.history)]
       ELSE [@ EXCEPT !.pc = "loop", !.result = service.history.result, !.idx = 1,
                      !.requests = Append(@, Request("GetPropertyValueHistory", inv[i].query)),
                      !.responses = Append(@, service.history)]]
  /\ UNCHANGED <<lookupVars, keyVars, callerQuery, service>>

\* Lines 177-206 in invocation i.
InvokeListEntities(i) ==
  /\ inv[i].pc = "loop"
  /\ inv[i].idx <= Len(inv[i].result)
  /\ \E x \in FirstExternalId(inv[i].result[inv[i].idx].ExternalIdProperty) :
       LET q == [inv[i].query EXCEPT !.EntityId = "", !.Properties = <<>>,
                                     !.ComponentTypeId = "",
                                     !.ListEntitiesFilter = <<[ExternalId |-> x]>>]
           o == service.search[x]
       IN  inv' = [inv EXCEPT ![i] =
             [@ EXCEPT !.query = q,
                       !.requests = Append(@, Request("ListEntities", q)),
                       !.responses = Append(@, o),
                       !.failures = RecordFailure(@, o.err),
                       !.pc = IF ~o.out.present THEN "panic"
                              ELSE IF Len(o.out.EntitySummaries) > 0 THEN "getEntity"
                              ELSE "loop",
                       !.idx = IF o.out.present /\ Len(o.out.EntitySummaries) = 0
                               THEN @ + 1 ELSE @,
                       !.le = IF o.out.present /\ Len(o.out.EntitySummaries) = 0
                              THEN NilListEntitiesOutput ELSE o.out,
                       !.externalId = IF o.out.present /\ Len(o.out.EntitySummaries) = 0
                                      THEN "" ELSE x]]
  /\ UNCHANGED <<lookupVars, keyVars, callerQuery, service>>

\* Lines 207-245 in invocation i.
InvokeGetEntity(i) ==
  /\ inv[i].pc = "getEntity"
  /\ LET entityId == inv[i].le.EntitySummaries[1].EntityId
         entityName == inv[i].le.EntitySummaries[1].EntityName
         q == [inv[i].query EXCEPT !.EntityId = entityId]
         o == service.detail[entityId]
         pr == [values |-> inv[i].result[inv[i].idx].Values,
                entityPropertyReference |->
                  [EntityId |-> entityId,
                   ComponentName |-> ScanComponents(o.out.Components,
                                                    inv[i].componentTypeId,
                                                    inv[i].externalId),
                   ExternalIdProperty |-> inv[i].result[inv[i].idx].ExternalIdProperty,
                   PropertyName |-> inv[i].result[inv[i].idx].PropertyName],
                entityName |-> entityName]
     IN  inv' = [inv EXCEPT ![i] =
           IF ~o.out.present
           THEN [@ EXCEPT !.query = q,
                          !.requests = Append(@, Request("GetEntity", q)),
                          !.responses = Append(@, o),
                          !.failures = RecordFailure(@, o.err),
                          !.pc = "panic"]
           ELSE [@ EXCEPT !.query = q,
                          !.requests = Append(@, Request("GetEntity", q)),
                          !.responses = Append(@, o),
                          !.failures = RecordFailure(@, o.err),
                          !.propertyReferences = Append(@, pr),
                          !.idx = @ + 1,
                          !.pc = "loop",
                          !.le = NilListEntitiesOutput,
                          !.externalId = ""]]
  /\ UNCHANGED <<lookupVars, keyVars, callerQuery, service>>

\* Line 249 in invocation i.
InvokeReturn(i) ==
  /\ inv[i].pc = "loop"
  /\ inv[i].idx > Len(inv[i].result)
  /\ inv' = [inv EXCEPT ![i] =
       [@ EXCEPT !.pc = "done",
                 !.ret = <<[p |-> inv[i].propertyReferences, n |-> inv[i].failures,
                            err |-> NoError]>>]]
  /\ UNCHANGED <<lookupVars, keyVars, callerQuery, service>>

NextTwo ==
  \/ \E i \in Invocations : InvokeGetPropertyValueHistory(i)
  \/ \E i \in Invocations : InvokeListEntities(i)
  \/ \E i \in Invocations : InvokeGetEntity(i)
  \/ \E i \in Invocations : InvokeReturn(i)

SpecTwo == InitTwo /\ [][NextTwo]_vars

\* ------------------------------------------------------ reading the state
CallsTo(op) == { i \in 1..Len(calls) : calls[i].op = op }
CallsFor(op, b) == { i \in CallsTo(op) : calls[i].batch = b }

SearchFailed(b) == \E i \in CallsFor("ListEntities", b) : calls[i].err # NoError
SearchHit(b) ==
  \E i \in CallsFor("ListEntities", b) : calls[i].err = NoError /\ calls[i].out = "hits"
SearchEmpty(b) ==
  \E i \in CallsFor("ListEntities", b) : calls[i].err = NoError /\ calls[i].out = "empty"
DetailOk(b) == \E i \in CallsFor("GetEntity", b) : calls[i].err = NoError
DetailFailed(b) == \E i \in CallsFor("GetEntity", b) : calls[i].err # NoError

BatchIndexes == [i \in 1..Len(result) |-> i]
Returned == pc = "done" /\ Len(ret) = 1

\* ---------------------------------------------------------------- claims

\* C1: if the history call returns an error, the invocation returns an empty
\* resolved sequence, an empty Notice sequence and that same error, and has
\* issued no ListEntities or GetEntity call.
C1_HistoryErrorIsFatal ==
  (Len(calls) > 0 /\ calls[1].err # NoError)
    => /\ Returned
       /\ ret[1] = [p |-> <<>>, n |-> <<>>, err |-> calls[1].err]
       /\ CallsTo("ListEntities") = {}
       /\ CallsTo("GetEntity") = {}

C1_Witness ==
  /\ Returned
  /\ Len(calls) = 1
  /\ calls[1].op = "GetPropertyValueHistory"
  /\ calls[1].err = ErrorText("GetPropertyValueHistory")
  /\ ret[1].err = ErrorText("GetPropertyValueHistory")

\* C2: when every batch either had its search fail or had a search with hits
\* and a successful entity-detail call, the invocation returns exactly one
\* resolved reference per non-failing batch, in input order, and exactly one
\* Notice per failing batch with that batch's error text.
C2_Precondition ==
  /\ Len(result) > 0
  /\ \A b \in 1..Len(result) : SearchFailed(b) \/ (SearchHit(b) /\ DetailOk(b))

C2_SearchFailuresOnlyAddNotices ==
  C2_Precondition
    => /\ pc # "panic"
       /\ Returned =>
            LET okBatches == SelectSeq(BatchIndexes, LAMBDA b : ~SearchFailed(b))
                badBatches == SelectSeq(BatchIndexes, LAMBDA b : SearchFailed(b))
            IN  /\ Len(ret[1].p) = Len(okBatches)
                /\ \A k \in 1..Len(okBatches) :
                     /\ k <= Len(ret[1].p)
                     /\ ret[1].p[k].values = result[okBatches[k]].Values
                     /\ ret[1].p[k].entityPropertyReference.PropertyName
                          = result[okBatches[k]].PropertyName
                /\ ret[1].n = [k \in 1..Len(badBatches) |-> Notice(ErrorText("ListEntities"))]

\* C3: when the entity-detail call fails for a batch (here: handing back a
\* response object), a warning Notice is recorded, no resolved reference is
\* appended for that batch, and the loop goes on with the next batch.
C3_DetailFailureDropsBatch ==
  /\ Len(propertyReferences) = Cardinality({ i \in CallsTo("GetEntity") : calls[i].err = NoError })
  /\ (Len(calls) > 0 /\ Last(calls).op = "GetEntity" /\ Last(calls).err # NoError
         /\ Last(calls).out = "ok")
       => /\ Len(failures) > 0
          /\ Last(failures) = Notice(Last(calls).err)
          /\ pc \in {"loop", "done"}

\* C4: when the search call fails for a batch (here: handing back a response
\* object), no GetEntity call is issued for that batch, no resolved reference
\* is appended for it, and the loop goes on with the next batch, whatever the
\* response holds.
C4_SearchFailureSkipsDetail ==
  /\ \A b \in 1..Len(result) : SearchFailed(b) => CallsFor("GetEntity", b) = {}
  /\ (Len(calls) > 0 /\ Last(calls).op = "ListEntities" /\ Last(calls).err # NoError
         /\ Last(calls).out # "nil")
       => /\ pc \in {"loop", "done"}
          /\ pc = "loop" => idx = Last(calls).batch + 1

\* C5: a failed search or entity-detail call never aborts the invocation, also
\* when the failed call hands back no response object.
C5_FailuresNeverAbort == pc # "panic"

\* C6: a search that succeeds with zero entity summaries adds neither a
\* resolved reference nor a Notice, and no GetEntity call is made for the
\* batch: every Notice stems from a failed call, every resolved reference
\* from a GetEntity call, and the batch has neither.
C6_EmptySearchIsSilent ==
  /\ \A b \in 1..Len(result) : SearchEmpty(b) => CallsFor("GetEntity", b) = {}
  /\ Len(failures) =
       Cardinality({ i \in CallsTo("ListEntities") \cup CallsTo("GetEntity") :
                       calls[i].err # NoError })
  /\ Len(propertyReferences) <= Cardinality(CallsTo("GetEntity"))
  /\ (Len(calls) > 0 /\ Last(calls).op = "ListEntities" /\ SearchEmpty(Last(calls).batch))
       => pc \in {"loop", "done"} /\ (pc = "loop" => idx = Last(calls).batch + 1)

C6_Witness ==
  /\ Returned
  /\ Len(result) = 2
  /\ SearchEmpty(1)
  /\ SearchHit(2) /\ DetailOk(2)
  /\ Len(ret[1].p) = 1
  /\ ret[1].n = <<>>

\* The component name the claims name for a response: components matching
\* the target type and the external id x, by position.
Matches(components, typeId, x) ==
  { i \in 1..Len(components) :
      /\ components[i].ComponentTypeId = typeId
      /\ \E k \in 1..Len(components[i].Properties) :
           /\ components[i].Properties[k].IsExternalId
           /\ components[i].Properties[k].Value = x }

IsFirstOfType(components, typeId, i) ==
  /\ i \in 1..Len(components)
  /\ components[i].ComponentTypeId = typeId
  /\ \A j \in 1..(i - 1) : components[j].ComponentTypeId # typeId

SuccessfulDetails == { o \in GetEntityOutcomes : o.err = NoError }
DetailResponses == { o \in GetEntityOutcomes : o.out.present }

AppendedName == Last(propertyReferences).entityPropertyReference.ComponentName

C8_AnyMatchingComponentResolves ==
  pc = "getEntity" =>
    \A o \in SuccessfulDetails :
      Matches(o.out.Components, CallerQuery.ComponentTypeId, externalId) # {} =>
        ENABLED ( /\ GetEntityOn(o)
                  /\ Len(propertyReferences') = Len(propertyReferences) + 1
                  /\ AppendedName' \in
                       { o.out.Components[i].ComponentName :
                           i \in Matches(o.out.Components, CallerQuery.ComponentTypeId,
                                         externalId) } )

\* C9 as stated: when no calls failed, no returned resolved reference has an
\* empty component name (a batch without a matching component is dropped).
C9_NoEmptyComponentName ==
  (Returned /\ \A i \in 1..Len(calls) : calls[i].err = NoError)
    => \A k \in 1..Len(ret[1].p) :
         ret[1].p[k].entityPropertyReference.ComponentName # ""

\* C9 amended: when the entity-detail call hands back a response without a
\* component of the target type whose property flagged as external id equals
\* the batch's external id, the batch is kept: one resolved reference with the
\* empty component name is appended for it.
C9_UnmatchedBatchKeptWithEmptyName ==
  pc = "getEntity" =>
    \A o \in DetailResponses :
      Matches(o.out.Components, CallerQuery.ComponentTypeId, externalId) = {} =>
        ENABLED ( /\ GetEntityOn(o)
                  /\ Len(propertyReferences') = Len(propertyReferences) + 1
                  /\ AppendedName' = ""
                  /\ pc' = "loop" )

C9_Witness ==
  /\ Returned
  /\ Len(calls) = 3
  /\ Last(calls).op = "GetEntity" /\ Last(calls).err = NoError
  /\ Len(ret[1].p) = 1
  /\ ret[1].p[1].entityPropertyReference.ComponentName = ""
  /\ ret[1].n = <<>>

\* C10: the entity-detail step uses the first entity summary only: the request
\* carries its entity id, and the appended resolved reference its entity id
\* and entity name.
C10_FirstSummaryOnly ==
  [][ pc = "getEntity" =>
        /\ Last(calls').op = "GetEntity"
        /\ Last(calls').query.EntityId = le.EntitySummaries[1].EntityId
        /\ pc' = "loop" =>
             /\ Len(propertyReferences') = Len(propertyReferences) + 1
             /\ Last(propertyReferences').entityPropertyReference.EntityId
                  = le.EntitySummaries[1].EntityId
             /\ Last(propertyReferences').entityName = le.EntitySummaries[1].EntityName ]_vars

C10_Witness ==
  /\ pc = "getEntity"
  /\ Len(le.EntitySummaries) = 2
  /\ idx = 2
  /\ Len(propertyReferences) = 1
  /\ propertyReferences[1].entityPropertyReference.EntityId = "e2"
  /\ propertyReferences[1].entityName = "Pump"
  /\ calls[3].op = "GetEntity" /\ calls[3].query.EntityId = "e2"

\* The entity-detail calls that handed back a response object, in call order:
\* each of them appended one resolved reference.
AppendingCalls == SelectSeq(calls, LAMBDA c : c.op = "GetEntity" /\ c.out = "ok")

\* C11: the resolved references are an order-preserving image of a
\* subsequence of the history batches: the k-th reference stems from the k-th
\* entity-detail call that handed back a response, these calls belong to
\* strictly increasing batches (so no batch contributes twice), each reference
\* carries the values and the property name of its own batch, and the
\* returned sequence is the accumulated one.
C11_OrderPreserved ==
  /\ Len(propertyReferences) = Len(AppendingCalls)
  /\ \A k \in 1..Len(AppendingCalls) :
       /\ AppendingCalls[k].batch \in 1..Len(result)
       /\ k <= Len(propertyReferences)
       /\ propertyReferences[k].values = result[AppendingCalls[k].batch].Values
       /\ propertyReferences[k].entityPropertyReference.PropertyName
            = result[AppendingCalls[k].batch].PropertyName
       /\ \A j \in 1..(k - 1) : AppendingCalls[j].batch < AppendingCalls[k].batch
  /\ (Returned /\ ret[1].err = NoError) => ret[1].p = propertyReferences

C11_Witness ==
  /\ Returned
  /\ Len(result) = 2
  /\ result[1].Values = "v2" /\ result[2].Values = "v1"
  /\ Len(ret[1].p) = 2
  /\ ret[1].p[1].values = "v2" /\ ret[1].p[1].entityPropertyReference.PropertyName = "p2"
  /\ ret[1].p[2].values = "v1" /\ ret[1].p[2].entityPropertyReference.PropertyName = "p1"

C13_CallsOrderedNoRetry ==
  /\ \A i \in 1..Len(calls) :
       /\ (calls[i].op = "GetPropertyValueHistory") <=> (i = 1)
       /\ calls[i].op = "ListEntities" =>
            /\ calls[i].batch = Cardinality({ j \in 1..i : calls[j].op = "ListEntities" })
            /\ calls[i].batch <= Len(result)
       /\ calls[i].op = "GetEntity" =>
            /\ i > 1
            /\ calls[i - 1].op = "ListEntities"
            /\ calls[i - 1].batch = calls[i].batch
  /\ \A b \in 1..Len(result) :
       /\ Cardinality(CallsFor("ListEntities", b)) <= 1
       /\ Cardinality(CallsFor("GetEntity", b)) <= 1
  /\ (Returned /\ calls[1].err = NoError) =>
       \A b \in 1..Len(result) : Cardinality(CallsFor("ListEntities", b)) = 1
  /\ (Returned /\ calls[1].err # NoError) => Len(calls) = 1

C13_Witness ==
  /\ Returned
  /\ Len(result) = 2
  /\ [i \in 1..Len(calls) |-> calls[i].op] =
       <<"GetPropertyValueHistory", "ListEntities", "GetEntity", "ListEntities", "GetEntity">>
  /\ [i \in 1..Len(calls) |-> calls[i].batch] = <<0, 1, 1, 2, 2>>
  /\ calls[2].err # NoError /\ calls[3].err # NoError
  /\ calls[4].err = NoError /\ calls[5].err = NoError

\* C17: every ListEntities request has an empty entity id, no property list,
\* an empty component-type id and exactly one filter, whose external id is a
\* value of the batch's ExternalIdProperty (the empty string for an empty
\* mapping); also after an earlier entity-detail step set the entity id.
C17_SearchRequestShape ==
  \A i \in CallsTo("ListEntities") :
    /\ calls[i].query.EntityId = ""
    /\ calls[i].query.Properties = <<>>
    /\ calls[i].query.ComponentTypeId = ""
    /\ Len(calls[i].query.ListEntitiesFilter) = 1
    /\ LET m == result[calls[i].batch].ExternalIdProperty
           x == calls[i].query.ListEntitiesFilter[1].ExternalId
       IN  IF DOMAIN m = {} THEN x = "" ELSE \E k \in DOMAIN m : x = m[k]

C17_Witness ==
  /\ Len(calls) >= 4
  /\ calls[3].op = "GetEntity" /\ calls[3].query.EntityId = "e1"
  /\ calls[4].op = "ListEntities" /\ calls[4].batch = 2
  /\ calls[4].query.EntityId = ""
  /\ calls[4].query.ListEntitiesFilter = <<[ExternalId |-> "x1"]>>

\* The failed search and entity-detail calls, in call order.
FailedLookupCalls ==
  SelectSeq(calls, LAMBDA c : c.op # "GetPropertyValueHistory" /\ c.err # NoError)

\* C18: the Notices correspond one to one, in call order, to the failed search
\* and entity-detail calls: the k-th Notice has severity warning and the error
\* text of the k-th failed call, there is no other Notice, and the returned
\* Notices are the accumulated ones.
C18_NoticesMatchFailedCalls ==
  /\ Len(failures) = Len(FailedLookupCalls)
  /\ \A k \in 1..Len(FailedLookupCalls) :
       /\ k <= Len(failures)
       /\ failures[k] = [Severity |-> "warning", Text |-> FailedLookupCalls[k].err]
  /\ Returned => ret[1].n = failures

C18_Witness ==
  /\ Returned
  /\ Len(result) = 2
  /\ SearchEmpty(1)
  /\ SearchFailed(2) /\ DetailFailed(2)
  /\ ret[1].n = <<[Severity |-> "warning", Text |-> "search failed"],
                  [Severity |-> "warning", Text |-> "detail failed"]>>

\* The logged calls of GetEntityPropertyReferenceKey.
KeyCallsLogged == { keyCalls.previous[i] : i \in 1..Len(keyCalls.previous) }
                    \cup { keyCalls.latest[i] : i \in 1..Len(keyCalls.latest) }

\* C14: extracting the external identifier is deterministic: two extractions
\* on the same reference select the same entry, also when the mapping holds
\* two entries, and for an empty mapping the extracted identifier is the
\* empty string.
C14_ExtractionDeterministic ==
  /\ \A c, d \in KeyCallsLogged : c.ref = d.ref => c.externalId = d.externalId
  /\ \A c \in KeyCallsLogged : DOMAIN c.ref.ExternalIdProperty = {} => c.externalId = ""

\* A reference with entity id, component name, external id and property name
\* present, and the four-field tuple a call read from it.
AllPresent(ref) ==
  /\ ref.EntityId # <<>>
  /\ ref.ComponentName # <<>>
  /\ DOMAIN ref.ExternalIdProperty # {}
  /\ ref.PropertyName # <<>>

FourFields(c) ==
  <<c.ref.EntityId[1], c.ref.ComponentName[1], c.externalId, c.ref.PropertyName[1]>>

\* C15: the key is unique per property instance: two references with all
\* four fields present whose four-field tuples differ get different keys.
C15_KeyUnique ==
  \A c, d \in KeyCallsLogged :
    (AllPresent(c.ref) /\ AllPresent(d.ref) /\ FourFields(c) # FourFields(d))
      => c.s # d.s

\* A reference with the four fields set to non-empty strings and a single
\* external id.
NonEmptySingle(ref) ==
  /\ AllPresent(ref)
  /\ ref.EntityId[1] # "" /\ ref.ComponentName[1] # "" /\ ref.PropertyName[1] # ""
  /\ Cardinality(DOMAIN ref.ExternalIdProperty) = 1
  /\ \A k \in DOMAIN ref.ExternalIdProperty : ref.ExternalIdProperty[k] # ""

\* C16: for references with the four fields non-empty and a single external
\* id, two calls with the same reference return the same key, and two
\* references differing in exactly one of the four fields get different keys.
C16_KeyStableAndSensitive ==
  \A c, d \in KeyCallsLogged :
    (NonEmptySingle(c.ref) /\ NonEmptySingle(d.ref)) =>
      /\ c.ref = d.ref => c.s = d.s
      /\ Cardinality({ f \in 1..4 : FourFields(c)[f] # FourFields(d)[f] }) = 1 => c.s # d.s

C16_Witness ==
  /\ Len(keyCalls.previous) = 1 /\ Len(keyCalls.latest) = 1
  /\ NonEmptySingle(keyCalls.previous[1].ref) /\ NonEmptySingle(keyCalls.latest[1].ref)
  /\ FourFields(keyCalls.previous[1]) = <<"a", "c", "x1", "p1">>
  /\ FourFields(keyCalls.latest[1]) = <<"a", "b_c", "x1", "p1">>
  /\ keyCalls.previous[1].s = "a_c_x1_p1"
  /\ keyCalls.latest[1].s = "a_b_c_x1_p1"

\* C19: the key is the concatenation, in this order, of the entity id and "_"
\* when the entity id is present, the component name and "_" when it is
\* present, an external-id value of the mapping (the empty string for an empty
\* mapping) and "_", and the property name when it is present; and the
\* function returns a key for every reference, whichever fields are absent.
C19_KeyIsConcatenation ==
  /\ \A c \in KeyCallsLogged :
       LET r == c.ref
           entity == IF r.EntityId = <<>> THEN "" ELSE r.EntityId[1] \o "_"
           component == IF r.ComponentName = <<>> THEN "" ELSE r.ComponentName[1] \o "_"
           property == IF r.PropertyName = <<>> THEN "" ELSE r.PropertyName[1]
           first == IF DOMAIN r.ExternalIdProperty = {} THEN {""}
                    ELSE { r.ExternalIdProperty[k] : k \in DOMAIN r.ExternalIdProperty }
       IN  \E x \in first : c.s = entity \o component \o x \o "_" \o property
  /\ \A ref \in EntityPropertyReferences : ENABLED GetEntityPropertyReferenceKeyOf(ref)

C19_Witness ==
  /\ Len(keyCalls.previous) = 1 /\ Len(keyCalls.latest) = 1
  /\ keyCalls.previous[1].ref =
       [EntityId |-> <<>>, ComponentName |-> <<>>, ExternalIdProperty |-> EmptyMapping,
        PropertyName |-> <<>>]
  /\ keyCalls.previous[1].s = "_"
  /\ keyCalls.latest[1].ref.EntityId = <<"">> /\ keyCalls.latest[1].ref.ComponentName = <<>>
  /\ keyCalls.latest[1].s = "_x2_p2"

\* C20: invocations are independent under any interleaving: the caller's
\* Query value is never changed, the first request of each invocation carries
\* the caller's Query whatever the other invocation has cleared by then, and
\* two invocations that were given the same service responses return the same
\* resolved references, Notices and error.
C20_InvocationsIndependent ==
  /\ callerQuery = CallerQuery
  /\ \A i \in Invocations :
       Len(inv[i].requests) > 0 => inv[i].requests[1].query = CallerQuery
  /\ ((\A i \in Invocations : inv[i].pc = "done")
        /\ inv[1].responses = inv[2].responses)
       => inv[1].ret = inv[2].ret
====
